---- MODULE Spec2Model ----
(***************************************************************************)
(* CdDevice (libcolord/cd-device.c): the client-side proxy of a colord     *)
(* device.  The private structure of one CdDevice, the remote device it    *)
(* mirrors, and the GDBusProxy's dispatch queue are the state; every       *)
(* public entry point and every D-Bus callback is one action.              *)
(***************************************************************************)
EXTENDS Integers, Sequences, FiniteSets, TLC

\* ------------------------------------------------------------------ bounds
MaxProfiles == 2      \* longest Profiles object-path array the daemon exposes
MaxEntries == 2       \* most entries in one PropertiesChanged dictionary
MaxEvents == 2        \* signals + PropertiesChanged the daemon emits in a run
MaxLocalSets == 1     \* g_object_set() calls by the owner in a run

\* ------------------------------------------------------------------ values
NULL == "NULL"
\* the object path of the daemon's device, and one where no object is exported
DevicePath == "/dev/1"
DevicePaths == {DevicePath, "/dev/none"}
ProfilePaths == {"/p/1", "/p/2"}
DeviceIds == {"d1"}
Models == {"m1", "m2"}
KindStrings == {"display", "bogus"}
Qualifiers == {"*.CMYK.*", ""}
SignalNames == {"Changed", "ProfileAdded"}

CD_DEVICE_KIND_UNKNOWN == "CD_DEVICE_KIND_UNKNOWN"
CD_DEVICE_KIND_DISPLAY == "CD_DEVICE_KIND_DISPLAY"
CdDeviceKind == {CD_DEVICE_KIND_UNKNOWN, CD_DEVICE_KIND_DISPLAY}

SeqsUpTo(S, n) == UNION {[1..k -> S] : k \in 0..n}
\* the daemon's Profiles arrays: no profile is added to a device twice
PathLists ==
    {l \in SeqsUpTo(ProfilePaths, MaxProfiles) :
        \A i, j \in 1..Len(l) : i # j => l[i] # l[j]}

\* struct _CdDevicePrivate, plus the two handlers connected on the proxy
VARIABLES proxy, object_path, id, model, created, profiles, kind, handlers
\* the remote device object and the proxy's dispatch queue
VARIABLES remote, pending, serial
\* what the owner observes: "changed" emissions, the last call's outcome
VARIABLES observed, delivered, last, nlocal, unresolved
\* the owner dropped its last reference and cd_device_finalize ran
VARIABLES finalized

priv == <<proxy, object_path, id, model, created, profiles, kind>>
env == <<handlers, remote, pending, serial, observed, delivered, nlocal, unresolved,
         finalized>>
vars == <<proxy, object_path, id, model, created, profiles, kind, handlers,
          remote, pending, serial, observed, delivered, last, nlocal, unresolved,
          finalized>>

\* ------------------------------------------------------------- collaborators
\* the names of the kinds other than the sentinel
KindNames == {"display"}

\* cd_device_kind_from_string (cd-enum.c): an unknown name is the sentinel
cd_device_kind_from_string(s) ==
    IF s \in KindNames THEN CD_DEVICE_KIND_DISPLAY ELSE CD_DEVICE_KIND_UNKNOWN

\* cd_device_kind_to_string (cd-enum.c)
cd_device_kind_to_string(k) ==
    IF k = CD_DEVICE_KIND_DISPLAY THEN "display" ELSE "unknown"

\* the ProfileId property of the remote profile at path
ProfileId(path) == IF path = "/p/1" THEN "icc-1" ELSE "icc-2"

\* cd_profile_new (cd-profile.c): an unbound profile, one reference on it
cd_profile_new == [object_path |-> NULL, id |-> NULL, ref_count |-> 1]

\* cd_profile_set_object_path_sync (cd-profile.c): binds the profile to path,
\* or fails; bad is the set of paths whose bind fails at this moment
cd_profile_set_object_path_sync(profile, path, bad) ==
    IF path \in bad
      THEN [ret |-> FALSE, profile |-> profile]
      ELSE [ret |-> TRUE,
            profile |-> [profile EXCEPT !.object_path = path, !.id = ProfileId(path)]]

\* ------------------------------------------------------------------ helpers
\* the loop with g_ptr_array_insert (array, 0, ...) for g_ptr_array_add
RECURSIVE ProfilesLoop_prepend(_, _, _, _)
ProfilesLoop_prepend(array, paths, bad, i) ==
    IF i > Len(paths)
      THEN [ret |-> TRUE, profiles |-> array]
      ELSE LET r == cd_profile_set_object_path_sync(cd_profile_new, paths[i], bad)
           IN  IF ~r.ret
                 THEN [ret |-> FALSE, profiles |-> array]
                 ELSE ProfilesLoop_prepend(<<r.profile>> \o array, paths, bad, i + 1)

\* the for loop of cd_device_set_profiles_array_from_variant, from index i
RECURSIVE ProfilesLoop(_, _, _, _)
ProfilesLoop(array, paths, bad, i) ==
    IF i > Len(paths)
      THEN [ret |-> TRUE, profiles |-> array]
      ELSE LET r == cd_profile_set_object_path_sync(cd_profile_new, paths[i], bad)
           IN  IF ~r.ret
                 THEN [ret |-> FALSE, profiles |-> array]
                 ELSE ProfilesLoop(Append(array, r.profile), paths, bad, i + 1)

\* g_ptr_array_set_size (profiles, 0), then the loop
cd_device_set_profiles_array_from_variant(array, paths, bad) ==
    ProfilesLoop(SubSeq(array, 1, 0), paths, bad, 1)

\* the iteration with a Model branch that also empties the profiles array
ApplyEntry_model_clears(p, e, bad) ==
    IF e.name = "Model"
      THEN [p EXCEPT !.model = e.value, !.profiles = <<>>]
      ELSE IF e.name = "Kind"
        THEN [p EXCEPT !.kind = cd_device_kind_from_string(e.value)]
        ELSE IF e.name = "Profiles"
          THEN LET r == cd_device_set_profiles_array_from_variant(p.profiles, e.value, bad)
               IN  [p EXCEPT !.profiles = r.profiles, !.dropped = @ \/ ~r.ret]
          ELSE p

\* the iteration with a Kind branch that keeps the kind when the name is unknown
ApplyEntry_kind_kept(p, e, bad) ==
    IF e.name = "Model"
      THEN [p EXCEPT !.model = e.value]
      ELSE IF e.name = "Kind"
        THEN IF cd_device_kind_from_string(e.value) = CD_DEVICE_KIND_UNKNOWN
               THEN p
               ELSE [p EXCEPT !.kind = cd_device_kind_from_string(e.value)]
        ELSE IF e.name = "Profiles"
          THEN LET r == cd_device_set_profiles_array_from_variant(p.profiles, e.value, bad)
               IN  [p EXCEPT !.profiles = r.profiles, !.dropped = @ \/ ~r.ret]
          ELSE p

\* the iteration with branches for DeviceId and Created as well
ApplyEntry_id_updated(p, e, bad) ==
    IF e.name = "Model"
      THEN [p EXCEPT !.model = e.value]
      ELSE IF e.name = "Kind"
        THEN [p EXCEPT !.kind = cd_device_kind_from_string(e.value)]
        ELSE IF e.name = "Profiles"
          THEN LET r == cd_device_set_profiles_array_from_variant(p.profiles, e.value, bad)
               IN  [p EXCEPT !.profiles = r.profiles, !.dropped = @ \/ ~r.ret]
          ELSE IF e.name = "DeviceId"
            THEN [p EXCEPT !.id = e.value]
            ELSE IF e.name = "Created"
              THEN [p EXCEPT !.created = e.value]
              ELSE p

\* one iteration of the loop of cd_device_dbus_properties_changed; dropped
\* records that a FALSE return of the profiles helper was ignored
ApplyEntry(p, e, bad) ==
    IF e.name = "Model"
      THEN [p EXCEPT !.model = e.value]
      ELSE IF e.name = "Kind"
        THEN [p EXCEPT !.kind = cd_device_kind_from_string(e.value)]
        ELSE IF e.name = "Profiles"
          THEN LET r == cd_device_set_profiles_array_from_variant(p.profiles, e.value, bad)
               IN  [p EXCEPT !.profiles = r.profiles, !.dropped = @ \/ ~r.ret]
          ELSE p

\* the handler with a loop that stops after the first entry
cd_device_dbus_properties_changed_first_only(p, changed, bad, i) ==
    IF Len(changed) = 0 THEN p ELSE ApplyEntry(p, changed[1], bad)

\* the handler with a loop that ends at the first entry it cannot apply: a
\* name it does not know, or a Profiles array with a path that fails to resolve
RECURSIVE cd_device_dbus_properties_changed_stops(_, _, _, _)
cd_device_dbus_properties_changed_stops(p, changed, bad, i) ==
    IF i > Len(changed)
      THEN p
      ELSE IF changed[i].name \notin {"Model", "Kind", "Profiles"}
        THEN p
        ELSE LET q == ApplyEntry(p, changed[i], bad)
             IN  IF q.dropped
                   THEN q
                   ELSE cd_device_dbus_properties_changed_stops(q, changed, bad, i + 1)

RECURSIVE cd_device_dbus_properties_changed(_, _, _, _)
cd_device_dbus_properties_changed(p, changed, bad, i) ==
    IF i > Len(changed)
      THEN p
      ELSE cd_device_dbus_properties_changed(ApplyEntry(p, changed[i], bad), changed, bad, i + 1)

\* ----------------------------------------------------------------- the daemon
Entry(n, v) == [name |-> n, value |-> v]
Entries ==
    {Entry("Model", m) : m \in Models}
    \cup {Entry("Kind", k) : k \in KindStrings}
    \cup {Entry("Profiles", l) : l \in PathLists}
    \cup {Entry("DeviceId", "d2"), Entry("Created", 2), Entry("Colorspace", "rgb")}

\* the entries the daemon combines into one dictionary of several entries
MultiEntries ==
    {Entry("Model", "m2"), Entry("Kind", "bogus"), Entry("Profiles", <<"/p/2">>),
     Entry("Colorspace", "rgb")}

\* a{sv}: a dictionary, so no name occurs twice
ChangeSets ==
    {<<e>> : e \in Entries}
    \cup {c \in SeqsUpTo(MultiEntries, MaxEntries) :
            /\ Len(c) > 1
            /\ \A i, j \in 1..Len(c) : i # j => c[i].name # c[j].name}

RECURSIVE ApplyRemote(_, _, _)
ApplyRemote(r, changed, i) ==
    IF i > Len(changed)
      THEN r
      ELSE LET e == changed[i]
           IN  ApplyRemote(IF e.name \in {"Model", "Kind", "Profiles"}
                             THEN [r EXCEPT ![e.name] = e.value]
                             ELSE r,
                           changed, i + 1)

Attrs == {"DeviceId", "Kind", "Model", "Created", "Profiles"}

\* the daemon's device when the run starts
RemoteInit ==
    [DeviceId : DeviceIds, Kind : KindStrings, Model : {"m1"}, Created : {1},
     Profiles : {<<>>, <<"/p/1">>, <<"/p/1", "/p/2">>}]

\* g_dbus_proxy_get_cached_property != NULL: GetAll filled the proxy's cache,
\* which it does when an object is exported at the proxy's path
Cached(path, name) == path = DevicePath /\ name \in Attrs

\* the device as an entry point or callback finds it
Snapshot ==
    [proxy |-> proxy, object_path |-> object_path, id |-> id, model |-> model,
     created |-> created, profiles |-> profiles, kind |-> kind, handlers |-> handlers]

\* the outcome of the last entry point or callback that ran: its argument, its
\* return value and GError, the remote calls it made, what it returned or
\* emitted, whether it ignored a failure, and the device it started from
Result(op, arg, ret, err, calls) ==
    [op |-> op, arg |-> arg, ret |-> ret, err |-> err, calls |-> calls, out |-> <<>>,
     dropped |-> FALSE, pre |-> Snapshot, reply |-> NULL, message |-> NULL]
Call(method, arg) == [method |-> method, arg |-> arg]

\* no entry point or callback is running: control is in the main loop
Idle ==
    [op |-> "idle", arg |-> NULL, ret |-> TRUE, err |-> "none", calls |-> <<>>,
     out |-> <<>>, dropped |-> FALSE, pre |-> NULL, reply |-> NULL, message |-> NULL]
AtMainLoop == last = Idle

Init ==
    /\ proxy = NULL
    /\ object_path = NULL
    /\ id = NULL
    /\ model = NULL
    /\ created = 0
    /\ profiles = <<>>
    /\ kind = CD_DEVICE_KIND_UNKNOWN
    /\ handlers = {}
    /\ remote \in RemoteInit
    /\ pending = <<>>
    /\ serial = 0
    /\ observed = <<>>
    /\ delivered = <<>>
    /\ last = Idle
    /\ nlocal = 0
    /\ unresolved = FALSE
    /\ finalized = FALSE

\* ------------------------------------------------------------------- bind
\* the check dropped: a bound device is bound again
ProxyIsNull_unchecked == TRUE

\* g_return_val_if_fail (device->priv->proxy == NULL, FALSE)
ProxyIsNull == proxy = NULL

\* the bind undoing what it did when a profile fails to resolve
cd_device_set_object_path_sync_rollback(path, connects, bad) ==
    IF ~ProxyIsNull
      THEN /\ last' = Result("cd_device_set_object_path_sync", path, FALSE, "precondition", <<>>)
           /\ UNCHANGED <<priv, env>>
      ELSE IF ~connects
        THEN /\ last' = Result("cd_device_set_object_path_sync", path, FALSE,
                               "Failed to connect to device",
                               <<Call("g_dbus_proxy_new_for_bus_sync", path)>>)
             /\ UNCHANGED <<priv, env>>
        ELSE LET r == cd_device_set_profiles_array_from_variant(
                          profiles, IF Cached(path, "Profiles") THEN remote.Profiles ELSE <<>>, bad)
             IN  /\ proxy' = IF r.ret THEN path ELSE proxy
                 /\ object_path' = IF r.ret THEN path ELSE object_path
                 /\ id' = IF r.ret /\ Cached(path, "DeviceId") THEN remote.DeviceId ELSE id
                 /\ kind' = IF r.ret /\ Cached(path, "Kind")
                              THEN cd_device_kind_from_string(remote.Kind) ELSE kind
                 /\ model' = IF r.ret /\ Cached(path, "Model") THEN remote.Model ELSE model
                 /\ created' = IF r.ret /\ Cached(path, "Created") THEN remote.Created ELSE created
                 /\ profiles' = IF r.ret THEN r.profiles ELSE profiles
                 /\ handlers' = IF r.ret THEN {"g-signal", "g-properties-changed"} ELSE handlers
                 /\ last' = Result("cd_device_set_object_path_sync", path, r.ret,
                                   IF r.ret THEN "none" ELSE "Failed to set profile object path",
                                   <<Call("g_dbus_proxy_new_for_bus_sync", path)>>)
                 /\ UNCHANGED <<remote, pending, serial, observed, delivered, nlocal, unresolved,
                                finalized>>

\* the bind connecting its two handlers before it resolves the profiles
cd_device_set_object_path_sync_handlers_first(path, connects, bad) ==
    IF ~ProxyIsNull
      THEN /\ last' = Result("cd_device_set_object_path_sync", path, FALSE, "precondition", <<>>)
           /\ UNCHANGED <<priv, env>>
      ELSE IF ~connects
        THEN /\ last' = Result("cd_device_set_object_path_sync", path, FALSE,
                               "Failed to connect to device",
                               <<Call("g_dbus_proxy_new_for_bus_sync", path)>>)
             /\ UNCHANGED <<priv, env>>
        ELSE LET r == cd_device_set_profiles_array_from_variant(
                          profiles, IF Cached(path, "Profiles") THEN remote.Profiles ELSE <<>>, bad)
             IN  /\ proxy' = path
                 /\ object_path' = path
                 /\ id' = IF Cached(path, "DeviceId") THEN remote.DeviceId ELSE id
                 /\ kind' = IF Cached(path, "Kind") THEN cd_device_kind_from_string(remote.Kind) ELSE kind
                 /\ model' = IF Cached(path, "Model") THEN remote.Model ELSE model
                 /\ created' = IF Cached(path, "Created") THEN remote.Created ELSE created
                 /\ profiles' = r.profiles
                 /\ handlers' = {"g-signal", "g-properties-changed"}
                 /\ last' = Result("cd_device_set_object_path_sync", path, r.ret,
                                   IF r.ret THEN "none" ELSE "Failed to set profile object path",
                                   <<Call("g_dbus_proxy_new_for_bus_sync", path)>>)
                 /\ UNCHANGED <<remote, pending, serial, observed, delivered, nlocal, unresolved,
                                finalized>>

\* the bind saving the object path before it connects
cd_device_set_object_path_sync_path_first(path, connects, bad) ==
    IF ~ProxyIsNull
      THEN /\ last' = Result("cd_device_set_object_path_sync", path, FALSE, "precondition", <<>>)
           /\ UNCHANGED <<priv, env>>
      ELSE IF ~connects
        THEN /\ last' = Result("cd_device_set_object_path_sync", path, FALSE,
                               "Failed to connect to device",
                               <<Call("g_dbus_proxy_new_for_bus_sync", path)>>)
             /\ object_path' = path
             /\ UNCHANGED <<proxy, id, model, created, profiles, kind, env>>
        ELSE LET r == cd_device_set_profiles_array_from_variant(
                          profiles, IF Cached(path, "Profiles") THEN remote.Profiles ELSE <<>>, bad)
             IN  /\ proxy' = path
                 /\ object_path' = path
                 /\ id' = IF Cached(path, "DeviceId") THEN remote.DeviceId ELSE id
                 /\ kind' = IF Cached(path, "Kind") THEN cd_device_kind_from_string(remote.Kind) ELSE kind
                 /\ model' = IF Cached(path, "Model") THEN remote.Model ELSE model
                 /\ created' = IF Cached(path, "Created") THEN remote.Created ELSE created
                 /\ profiles' = r.profiles
                 /\ handlers' = IF r.ret THEN {"g-signal", "g-properties-changed"} ELSE handlers
                 /\ last' = Result("cd_device_set_object_path_sync", path, r.ret,
                                   IF r.ret THEN "none" ELSE "Failed to set profile object path",
                                   <<Call("g_dbus_proxy_new_for_bus_sync", path)>>)
                 /\ UNCHANGED <<remote, pending, serial, observed, delivered, nlocal, unresolved,
                                finalized>>

cd_device_set_object_path_sync(path, connects, bad) ==
    IF ~ProxyIsNull
      THEN /\ last' = Result("cd_device_set_object_path_sync", path, FALSE, "precondition", <<>>)
           /\ UNCHANGED <<priv, env>>
      ELSE IF ~connects
        THEN /\ last' = Result("cd_device_set_object_path_sync", path, FALSE,
                               "Failed to connect to device",
                               <<Call("g_dbus_proxy_new_for_bus_sync", path)>>)
             /\ UNCHANGED <<priv, env>>
        ELSE LET r == cd_device_set_profiles_array_from_variant(
                          profiles, IF Cached(path, "Profiles") THEN remote.Profiles ELSE <<>>, bad)
             IN  /\ proxy' = path
                 /\ object_path' = path
                 /\ id' = IF Cached(path, "DeviceId") THEN remote.DeviceId ELSE id
                 /\ kind' = IF Cached(path, "Kind") THEN cd_device_kind_from_string(remote.Kind) ELSE kind
                 /\ model' = IF Cached(path, "Model") THEN remote.Model ELSE model
                 /\ created' = IF Cached(path, "Created") THEN remote.Created ELSE created
                 /\ profiles' = r.profiles
                 /\ handlers' = IF r.ret THEN {"g-signal", "g-properties-changed"} ELSE handlers
                 /\ last' = Result("cd_device_set_object_path_sync", path, r.ret,
                                   IF r.ret THEN "none" ELSE "Failed to set profile object path",
                                   <<Call("g_dbus_proxy_new_for_bus_sync", path)>>)
                 /\ UNCHANGED <<remote, pending, serial, observed, delivered, nlocal, unresolved,
                                finalized>>

\* ------------------------------------------------------------ D-Bus callbacks
\* the daemon changes properties and announces them in one PropertiesChanged
RemoteChange(changed) ==
    /\ proxy = DevicePath
    /\ serial < MaxEvents
    /\ remote' = ApplyRemote(remote, changed, 1)
    /\ serial' = serial + 1
    /\ pending' = Append(pending, [type |-> "props", seq |-> serial + 1, changed |-> changed])
    /\ UNCHANGED <<priv, handlers, observed, delivered, last, nlocal, unresolved, finalized>>

\* the daemon emits a signal on the device interface
RemoteSignal(name) ==
    /\ proxy = DevicePath
    /\ serial < MaxEvents
    /\ serial' = serial + 1
    /\ pending' = Append(pending, [type |-> "signal", seq |-> serial + 1, name |-> name])
    /\ UNCHANGED <<priv, handlers, remote, observed, delivered, last, nlocal, unresolved,
                   finalized>>

\* the main loop dispatches the oldest g-properties-changed
DispatchPropertiesChanged(bad) ==
    /\ pending # <<>>
    /\ Head(pending).type = "props"
    /\ pending' = Tail(pending)
    /\ IF "g-properties-changed" \in handlers
         THEN LET p == cd_device_dbus_properties_changed(
                           [id |-> id, created |-> created, model |-> model, kind |-> kind,
                            profiles |-> profiles, dropped |-> FALSE],
                           Head(pending).changed, bad, 1)
              IN  /\ id' = p.id
                  /\ created' = p.created
                  /\ model' = p.model
                  /\ kind' = p.kind
                  /\ profiles' = p.profiles
                  /\ unresolved' = (unresolved \/ p.dropped)
                  /\ last' = [Result("cd_device_dbus_properties_changed",
                                     Head(pending).changed, TRUE, "none", <<>>)
                                EXCEPT !.dropped = p.dropped]
         ELSE UNCHANGED <<id, created, model, kind, profiles, last, unresolved>>
    /\ UNCHANGED <<proxy, object_path, handlers, remote, serial,
                   observed, delivered, nlocal, finalized>>

\* the callback coalescing a "Changed" that directly follows another one
cd_device_dbus_signal_cb_coalesce(signal_name, seq) ==
    IF signal_name = "Changed" /\ (observed = <<>> \/ observed[Len(observed)] # seq - 1)
      THEN Append(observed, seq)
      ELSE observed

\* cd_device_dbus_signal_cb: the "changed" emissions after this signal
cd_device_dbus_signal_cb(signal_name, seq) ==
    IF signal_name = "Changed" THEN Append(observed, seq) ELSE observed

\* the main loop dispatches the oldest g-signal
DispatchSignal ==
    /\ pending # <<>>
    /\ Head(pending).type = "signal"
    /\ pending' = Tail(pending)
    /\ IF "g-signal" \in handlers
         THEN /\ observed' = cd_device_dbus_signal_cb(Head(pending).name, Head(pending).seq)
              /\ delivered' = IF Head(pending).name = "Changed"
                                THEN Append(delivered, Head(pending).seq) ELSE delivered
              /\ last' = Result("cd_device_dbus_signal_cb", Head(pending).name, TRUE, "none", <<>>)
         ELSE UNCHANGED <<observed, delivered, last>>
    /\ UNCHANGED <<priv, handlers, remote, serial, nlocal, unresolved, finalized>>

\* ------------------------------------------------------------- remote calls
\* a g_return_val_if_fail that fails: the value is returned, no GError is set
Precondition(op, arg) ==
    /\ last' = Result(op, arg, FALSE, "precondition", <<>>)
    /\ UNCHANGED <<priv, env>>

\* the message of the GError the transport sets when a call gets no reply
error_local_message == "GDBus.Error:org.freedesktop.DBus.Error.NoReply"

\* g_dbus_proxy_call_sync: the reply, or NULL and the transport's GError
g_dbus_proxy_call_sync(ok, reply) ==
    IF ok THEN [response |-> reply, message |-> NULL]
          ELSE [response |-> NULL, message |-> error_local_message]

\* the helper storing the value in the device once the daemon accepted it
cd_device_set_property_sync_optimistic(op, name, value, ok) ==
    /\ last' = Result(op, value, ok,
                      IF ok THEN "none" ELSE "Failed to set profile object path",
                      <<Call("SetProperty", <<name, value>>)>>)
    /\ model' = IF ok /\ name = "Model" THEN value ELSE model
    /\ kind' = IF ok /\ name = "Kind" THEN cd_device_kind_from_string(value) ELSE kind
    /\ UNCHANGED <<proxy, object_path, id, created, profiles, env>>

\* the helper calling a second time when the first call failed
cd_device_set_property_sync_retry(op, name, value, ok) ==
    /\ last' = [Result(op, value, ok,
                       IF ok THEN "none" ELSE "Failed to set profile object path",
                       IF ok THEN <<Call("SetProperty", <<name, value>>)>>
                             ELSE <<Call("SetProperty", <<name, value>>),
                                    Call("SetProperty", <<name, value>>)>>)
                  EXCEPT !.reply = g_dbus_proxy_call_sync(ok, "()").response,
                         !.message = g_dbus_proxy_call_sync(ok, "()").message]
    /\ UNCHANGED <<priv, env>>

\* ok: whether g_dbus_proxy_call_sync returns a reply
cd_device_set_property_sync(op, name, value, ok) ==
    /\ last' = [Result(op, value, ok,
                       IF ok THEN "none" ELSE "Failed to set profile object path",
                       <<Call("SetProperty", <<name, value>>)>>)
                  EXCEPT !.reply = g_dbus_proxy_call_sync(ok, "()").response,
                         !.message = g_dbus_proxy_call_sync(ok, "()").message]
    /\ UNCHANGED <<priv, env>>

\* the entry point without its check of the proxy
cd_device_set_model_sync_unchecked(value, ok) ==
    cd_device_set_property_sync("cd_device_set_model_sync", "Model", value, ok)

cd_device_set_model_sync(value, ok) ==
    IF proxy = NULL
      THEN Precondition("cd_device_set_model_sync", value)
      ELSE cd_device_set_property_sync("cd_device_set_model_sync", "Model", value, ok)

cd_device_set_kind_sync(k, ok) ==
    IF proxy = NULL
      THEN Precondition("cd_device_set_kind_sync", k)
      ELSE cd_device_set_property_sync("cd_device_set_kind_sync", "Kind",
                                       cd_device_kind_to_string(k), ok)

\* the CdProfile arguments a caller passes: a bound one and an unbound one
ProfileArgs ==
    {cd_profile_set_object_path_sync(cd_profile_new, "/p/1", {}).profile, cd_profile_new}

cd_device_add_profile_sync(profile, ok) ==
    IF proxy = NULL
      THEN Precondition("cd_device_add_profile_sync", profile)
      ELSE /\ last' = [Result("cd_device_add_profile_sync", profile, ok,
                              IF ok THEN "none" ELSE "Failed to add profile to device",
                              <<Call("AddProfile", profile.object_path)>>)
                         EXCEPT !.reply = g_dbus_proxy_call_sync(ok, "()").response,
                                !.message = g_dbus_proxy_call_sync(ok, "()").message]
           /\ UNCHANGED <<priv, env>>

cd_device_make_profile_default_sync(profile, ok) ==
    IF proxy = NULL
      THEN Precondition("cd_device_make_profile_default_sync", profile)
      ELSE /\ last' = [Result("cd_device_make_profile_default_sync", profile, ok,
                              IF ok THEN "none" ELSE "Failed to make profile default on device",
                              <<Call("MakeProfileDefault", profile.id)>>)
                         EXCEPT !.reply = g_dbus_proxy_call_sync(ok, "()").response,
                                !.message = g_dbus_proxy_call_sync(ok, "()").message]
           /\ UNCHANGED <<priv, env>>

\* the entry point handing out, with one more reference on it, the profile of
\* the device's array that has the path of the reply, when there is one
cd_device_get_profile_for_qualifier_sync_cached(qualifier, ok, reply, bad) ==
    IF qualifier = NULL \/ proxy = NULL
      THEN Precondition("cd_device_get_profile_for_qualifier_sync", qualifier)
      ELSE IF ~ok
        THEN /\ last' = [Result("cd_device_get_profile_for_qualifier_sync", qualifier, FALSE,
                                "Failed to get a suitable profile",
                                <<Call("GetProfileForQualifier", qualifier)>>)
                           EXCEPT !.message = error_local_message]
             /\ UNCHANGED <<priv, env>>
        ELSE IF \E i \in 1..Len(profiles) : profiles[i].object_path = reply
          THEN LET i == CHOOSE j \in 1..Len(profiles) : profiles[j].object_path = reply
               IN  /\ profiles' = [profiles EXCEPT ![i].ref_count = @ + 1]
                   /\ last' = [Result("cd_device_get_profile_for_qualifier_sync", qualifier,
                                      TRUE, "none", <<Call("GetProfileForQualifier", qualifier)>>)
                                 EXCEPT !.out = <<[profiles[i] EXCEPT !.ref_count = @ + 1]>>,
                                        !.reply = reply]
                   /\ UNCHANGED <<proxy, object_path, id, model, created, kind, env>>
          ELSE LET r == cd_profile_set_object_path_sync(cd_profile_new, reply, bad)
               IN  /\ last' = [Result("cd_device_get_profile_for_qualifier_sync", qualifier,
                                      r.ret, IF r.ret THEN "none" ELSE "profile",
                                      <<Call("GetProfileForQualifier", qualifier)>>)
                                 EXCEPT !.out = IF r.ret THEN <<r.profile>> ELSE <<>>,
                                        !.reply = reply]
                   /\ UNCHANGED <<priv, env>>

\* reply: the object path the daemon answers with; bad: paths that fail to bind.
\* The profile handed out is profile_tmp with the reference g_object_ref took
\* and without the one g_object_unref dropped.
cd_device_get_profile_for_qualifier_sync(qualifier, ok, reply, bad) ==
    IF qualifier = NULL \/ proxy = NULL
      THEN Precondition("cd_device_get_profile_for_qualifier_sync", qualifier)
      ELSE LET c == g_dbus_proxy_call_sync(ok, reply)
           IN  IF c.response = NULL
        THEN /\ last' = [Result("cd_device_get_profile_for_qualifier_sync", qualifier, FALSE,
                                "Failed to get a suitable profile",
                                <<Call("GetProfileForQualifier", qualifier)>>)
                           EXCEPT !.reply = c.response, !.message = c.message]
             /\ UNCHANGED <<priv, env>>
        ELSE LET r == cd_profile_set_object_path_sync(cd_profile_new, c.response, bad)
             IN  /\ last' = [Result("cd_device_get_profile_for_qualifier_sync", qualifier,
                                    r.ret, IF r.ret THEN "none" ELSE "profile",
                                    <<Call("GetProfileForQualifier", qualifier)>>)
                               EXCEPT !.out = IF r.ret
                                                THEN <<[r.profile EXCEPT !.ref_count = (@ + 1) - 1]>>
                                                ELSE <<>>,
                                      !.reply = c.response]
                 /\ UNCHANGED <<priv, env>>

\* ------------------------------------------------------------ GObject setter
PROP_CREATED == 1
PROP_ID == 2
PROP_MODEL == 3
PROP_KIND == 4

\* the values an owner passes to g_object_set, per property
PropValues(prop_id) ==
    IF prop_id = PROP_CREATED THEN {7}
    ELSE IF prop_id = PROP_ID THEN {"d7"}
    ELSE IF prop_id = PROP_MODEL THEN {"m2"}
    ELSE {CD_DEVICE_KIND_DISPLAY}

\* the setter treating id and created as read-only once the device has a proxy
cd_device_set_property_fixed_once_bound(prop_id, value) ==
    /\ nlocal < MaxLocalSets
    /\ nlocal' = nlocal + 1
    /\ id' = IF prop_id = PROP_ID /\ proxy = NULL THEN value ELSE id
    /\ model' = IF prop_id = PROP_MODEL THEN value ELSE model
    /\ created' = IF prop_id = PROP_CREATED /\ proxy = NULL THEN value ELSE created
    /\ kind' = IF prop_id = PROP_KIND THEN value ELSE kind
    /\ last' = Result("cd_device_set_property", <<prop_id, value>>, TRUE, "none", <<>>)
    /\ UNCHANGED <<proxy, object_path, profiles, handlers, remote, pending, serial,
                   observed, delivered, unresolved, finalized>>

cd_device_set_property(prop_id, value) ==
    /\ nlocal < MaxLocalSets
    /\ nlocal' = nlocal + 1
    /\ id' = IF prop_id = PROP_ID THEN value ELSE id
    /\ model' = IF prop_id = PROP_MODEL THEN value ELSE model
    /\ created' = IF prop_id = PROP_CREATED THEN value ELSE created
    /\ kind' = IF prop_id = PROP_KIND THEN value ELSE kind
    /\ last' = Result("cd_device_set_property", <<prop_id, value>>, TRUE, "none", <<>>)
    /\ UNCHANGED <<proxy, object_path, profiles, handlers, remote, pending, serial,
                   observed, delivered, unresolved, finalized>>

\* ------------------------------------------------------------------ finalize
\* the finalizer without its g_object_unref of the proxy: the proxy, and the
\* two handlers connected on it, outlive the device
cd_device_finalize_proxy_leaked ==
    /\ ~finalized
    /\ finalized' = TRUE
    /\ profiles' = [i \in 1..Len(profiles) |-> [profiles[i] EXCEPT !.ref_count = @ - 1]]
    /\ last' = Result("cd_device_finalize", NULL, TRUE, "none", <<>>)
    /\ UNCHANGED <<proxy, object_path, id, model, created, kind, handlers, remote, pending,
                   serial, observed, delivered, nlocal, unresolved>>

\* cd_device_finalize: g_ptr_array_unref drops the array's reference on every
\* profile (the free function of cd_device_init); the device held the only
\* reference on its proxy, so g_object_unref destroys the proxy and with it
\* the handlers connected on it.  The freed fields are not read again.
cd_device_finalize ==
    /\ ~finalized
    /\ finalized' = TRUE
    /\ profiles' = [i \in 1..Len(profiles) |-> [profiles[i] EXCEPT !.ref_count = @ - 1]]
    /\ handlers' = IF proxy # NULL THEN {} ELSE handlers
    /\ last' = Result("cd_device_finalize", NULL, TRUE, "none", <<>>)
    /\ UNCHANGED <<proxy, object_path, id, model, created, kind, remote, pending,
                   serial, observed, delivered, nlocal, unresolved>>

\* ------------------------------------------------------------ specification
\* Everything runs on one main loop: an entry point is called, and a callback
\* dispatched, only while no other one is running; last holds the outcome of
\* the one that ran until control is back in the loop.  No entry point is
\* called on a device that was finalized.
ReturnToMainLoop ==
    /\ ~AtMainLoop
    /\ last' = Idle
    /\ UNCHANGED <<priv, env>>

SetObjectPathSync ==
    /\ AtMainLoop
    /\ ~finalized
    /\ \E path \in DevicePaths, connects \in BOOLEAN, bad \in SUBSET ProfilePaths :
          cd_device_set_object_path_sync(path, connects, bad)
ProxyPropertiesChanged == AtMainLoop /\ \E c \in ChangeSets : RemoteChange(c)
ProxySignal == AtMainLoop /\ \E n \in SignalNames : RemoteSignal(n)
PropertiesChanged ==
    AtMainLoop /\ \E bad \in SUBSET ProfilePaths : DispatchPropertiesChanged(bad)
Signal == AtMainLoop /\ DispatchSignal
SetModelSync ==
    AtMainLoop /\ ~finalized /\ \E v \in {"m2"}, ok \in BOOLEAN : cd_device_set_model_sync(v, ok)
SetKindSync ==
    /\ AtMainLoop
    /\ ~finalized
    /\ \E k \in {CD_DEVICE_KIND_DISPLAY}, ok \in BOOLEAN : cd_device_set_kind_sync(k, ok)
AddProfileSync ==
    AtMainLoop /\ ~finalized /\ \E p \in ProfileArgs, ok \in BOOLEAN : cd_device_add_profile_sync(p, ok)
MakeProfileDefaultSync ==
    /\ AtMainLoop
    /\ ~finalized
    /\ \E p \in ProfileArgs, ok \in BOOLEAN : cd_device_make_profile_default_sync(p, ok)
GetProfileForQualifierSync ==
    /\ AtMainLoop
    /\ ~finalized
    /\ \E q \in Qualifiers \cup {NULL}, ok \in BOOLEAN, reply \in {"/p/1"},
          bad \in SUBSET ProfilePaths :
          cd_device_get_profile_for_qualifier_sync(q, ok, reply, bad)
SetProperty ==
    /\ AtMainLoop
    /\ ~finalized
    /\ \E prop_id \in {PROP_CREATED, PROP_ID, PROP_MODEL, PROP_KIND} :
          \E value \in PropValues(prop_id) : cd_device_set_property(prop_id, value)
\* the owner drops the last reference on the device
Finalize == AtMainLoop /\ cd_device_finalize

Next ==
    \/ SetObjectPathSync
    \/ ProxyPropertiesChanged
    \/ ProxySignal
    \/ PropertiesChanged
    \/ Signal
    \/ SetModelSync
    \/ SetKindSync
    \/ AddProfileSync
    \/ MakeProfileDefaultSync
    \/ GetProfileForQualifierSync
    \/ SetProperty
    \/ Finalize
    \/ ReturnToMainLoop

Spec == Init /\ [][Next]_vars

\* ------------------------------------------------------------------ properties
\* the entry point or callback op has just run
Ran(op) == last.op = op
\* the object paths of a profiles array, in order
PathsOf(array) == [i \in 1..Len(array) |-> array[i].object_path]
\* the dictionary just handled has an entry named n
Changes(n) == \E i \in 1..Len(last.arg) : last.arg[i].name = n
BothHandlers == {"g-signal", "g-properties-changed"}

\* C1: cd_device_set_object_path_sync on a device that already has a proxy
\* returns FALSE from its precondition check, makes no connection attempt and
\* leaves proxy, object path, id, model, kind, created and profiles as they
\* were; and no entry point or callback changes a proxy that is set.
C1_RebindRejected ==
    /\ (~Ran("idle") /\ last.pre.proxy # NULL) => proxy = last.pre.proxy
    /\ (Ran("cd_device_set_object_path_sync") /\ last.pre.proxy # NULL) =>
          /\ last.ret = FALSE
          /\ last.err = "precondition"
          /\ last.calls = <<>>
          /\ Snapshot = last.pre

C1_RebindRejectedSeen ==
    /\ Ran("cd_device_set_object_path_sync")
    /\ last.err = "precondition"
    /\ last.pre.proxy = DevicePath
    /\ proxy = DevicePath
    /\ last.arg # proxy
    /\ Len(profiles) = 2

\* C2: a g-properties-changed whose Profiles array has a path that fails to
\* resolve leaves the profiles array exactly as it was before.
C2_FailedProfilesKeepOldList ==
    (Ran("cd_device_dbus_properties_changed") /\ last.dropped) =>
        profiles = last.pre.profiles

\* C3: the profiles array starts empty and an entry point or callback either
\* leaves it alone or makes it the complete resolution, in order, of the one
\* path array supplied to it (the cached Profiles property, or the Profiles
\* entry of the notification): never a strict prefix, never a mixture.  The
\* finalizer, which releases the profiles, is no update of the list.
C3_ProfilesReplacedWholesale ==
    /\ Ran("idle") /\ proxy = NULL => profiles = <<>>
    /\ ~Ran("idle") =>
          \/ profiles = last.pre.profiles
          \/ Ran("cd_device_finalize") /\ PathsOf(profiles) = PathsOf(last.pre.profiles)
          \/ /\ Ran("cd_device_set_object_path_sync")
             /\ PathsOf(profiles) = (IF proxy = DevicePath THEN remote.Profiles ELSE <<>>)
          \/ /\ Ran("cd_device_dbus_properties_changed")
             /\ \E i \in 1..Len(last.arg) :
                   /\ last.arg[i].name = "Profiles"
                   /\ PathsOf(profiles) = last.arg[i].value

\* C4: right after a bind that returned TRUE, id, model, kind, created and the
\* profiles array are the DeviceId, Model, parsed Kind, Created and Profiles
\* (one profile per path, same order) that the proxy cached.
C4_BindHydratesSnapshot ==
    (Ran("cd_device_set_object_path_sync") /\ last.ret) =>
        /\ proxy = last.arg
        /\ object_path = last.arg
        /\ proxy = DevicePath =>
              /\ id = remote.DeviceId
              /\ model = remote.Model
              /\ kind = cd_device_kind_from_string(remote.Kind)
              /\ created = remote.Created
              /\ Len(profiles) = Len(remote.Profiles)
              /\ \A i \in 1..Len(profiles) : profiles[i].object_path = remote.Profiles[i]
        /\ proxy # DevicePath => profiles = <<>>

C4_BindHydratedSeen ==
    /\ Ran("cd_device_set_object_path_sync")
    /\ last.ret
    /\ id = "d1"
    /\ model = "m1"
    /\ kind = CD_DEVICE_KIND_DISPLAY
    /\ created = 1
    /\ PathsOf(profiles) = <<"/p/1", "/p/2">>

\* C5: on a device whose bind succeeded, once every g-properties-changed the
\* daemon sent has been dispatched, no path of them having failed to resolve
\* and the owner not having written a property locally, model, kind and the
\* profiles array are the daemon's current Model, Kind (parsed) and Profiles.
C5_MirrorSynchronized ==
    (/\ proxy = DevicePath
     /\ handlers = BothHandlers
     /\ pending = <<>>
     /\ ~unresolved
     /\ nlocal = 0) =>
        /\ model = remote.Model
        /\ kind = cd_device_kind_from_string(remote.Kind)
        /\ PathsOf(profiles) = remote.Profiles

C5_MirrorSynchronizedSeen ==
    /\ Ran("cd_device_dbus_properties_changed")
    /\ last.arg = <<Entry("Kind", "bogus")>>
    /\ handlers = BothHandlers
    /\ serial = 2
    /\ pending = <<>>
    /\ ~unresolved
    /\ nlocal = 0
    /\ last.pre.kind = CD_DEVICE_KIND_DISPLAY
    /\ last.pre.model = "m2"
    /\ kind = CD_DEVICE_KIND_UNKNOWN
    /\ remote.Kind = "bogus"
    /\ model = "m2"
    /\ PathsOf(profiles) = <<"/p/2">>
    /\ remote.Profiles = <<"/p/2">>

\* C6: a g-properties-changed whose only entry is Model = X sets model to X
\* and leaves kind, id, created, profiles, object path and proxy unchanged.
C6_ModelOnlyNotification ==
    (/\ Ran("cd_device_dbus_properties_changed")
     /\ Len(last.arg) = 1
     /\ last.arg[1].name = "Model") =>
        /\ model = last.arg[1].value
        /\ Snapshot = [last.pre EXCEPT !.model = last.arg[1].value]

C6_ModelOnlyNotificationSeen ==
    /\ Ran("cd_device_dbus_properties_changed")
    /\ last.arg = <<Entry("Model", "m2")>>
    /\ last.pre.model = "m1"
    /\ model = "m2"
    /\ kind = CD_DEVICE_KIND_DISPLAY
    /\ Len(profiles) = 2

\* C7: a g-properties-changed with a Kind entry whose string is no kind name
\* sets kind to CD_DEVICE_KIND_UNKNOWN, whatever it was, without an error; so
\* does a bind whose cached Kind is no kind name.
C7_UnknownKindIsSentinel ==
    /\ (/\ Ran("cd_device_dbus_properties_changed")
        /\ \E i \in 1..Len(last.arg) :
              last.arg[i].name = "Kind" /\ last.arg[i].value \notin KindNames) =>
          /\ kind = CD_DEVICE_KIND_UNKNOWN
          /\ last.ret
          /\ last.err = "none"
    /\ (/\ Ran("cd_device_set_object_path_sync")
        /\ last.pre.proxy = NULL
        /\ proxy = DevicePath
        /\ remote.Kind \notin KindNames) =>
          kind = CD_DEVICE_KIND_UNKNOWN

C7_UnknownKindSeen ==
    /\ Ran("cd_device_dbus_properties_changed")
    /\ last.arg = <<Entry("Kind", "bogus")>>
    /\ last.pre.kind = CD_DEVICE_KIND_DISPLAY
    /\ kind = CD_DEVICE_KIND_UNKNOWN

\* C8: cd_device_set_model_sync, cd_device_set_kind_sync,
\* cd_device_add_profile_sync, cd_device_make_profile_default_sync and
\* cd_device_get_profile_for_qualifier_sync on a device without a proxy fail
\* their precondition check, issue no remote call and change nothing.
C8_UnboundCallsRejected ==
    (/\ \/ Ran("cd_device_set_model_sync")
        \/ Ran("cd_device_set_kind_sync")
        \/ Ran("cd_device_add_profile_sync")
        \/ Ran("cd_device_make_profile_default_sync")
        \/ Ran("cd_device_get_profile_for_qualifier_sync")
     /\ last.pre.proxy = NULL) =>
        /\ last.ret = FALSE
        /\ last.err = "precondition"
        /\ last.calls = <<>>
        /\ last.out = <<>>
        /\ Snapshot = last.pre

C8_UnboundSetModelSeen ==
    /\ Ran("cd_device_set_model_sync")
    /\ last.err = "precondition"
    /\ last.calls = <<>>
    /\ proxy = NULL

\* C9: the "changed" emissions on the device are, one for one and in the same
\* order, the "Changed" signals dispatched to its g-signal handler; a signal of
\* another name adds none and two "Changed" in a row add two.
C9_ChangedReemitted == observed = delivered

C9_TwoChangedSeen ==
    /\ observed = <<1, 2>>
    /\ delivered = <<1, 2>>
    /\ pending = <<>>

\* C10: a cd_device_set_model_sync or cd_device_set_kind_sync that returns
\* TRUE issued exactly one SetProperty call and left the device as it was; on
\* a bound device model (kind) changes, apart from the owner writing the
\* GObject property, only in the dispatch of a g-properties-changed that has a
\* Model (Kind) entry.
C10_SetModelNotOptimistic ==
    /\ ((Ran("cd_device_set_model_sync") \/ Ran("cd_device_set_kind_sync")) /\ last.ret) =>
          /\ Len(last.calls) = 1
          /\ last.calls[1].method = "SetProperty"
          /\ Snapshot = last.pre
    /\ (/\ ~Ran("idle")
        /\ ~Ran("cd_device_set_property")
        /\ last.pre.proxy # NULL
        /\ model # last.pre.model) =>
          Ran("cd_device_dbus_properties_changed") /\ Changes("Model")
    /\ (/\ ~Ran("idle")
        /\ ~Ran("cd_device_set_property")
        /\ last.pre.proxy # NULL
        /\ kind # last.pre.kind) =>
          Ran("cd_device_dbus_properties_changed") /\ Changes("Kind")

C10_SetModelNotReflectedSeen ==
    /\ Ran("cd_device_set_model_sync")
    /\ last.ret
    /\ last.arg = "m2"
    /\ last.calls = <<Call("SetProperty", <<"Model", "m2">>)>>
    /\ model = "m1"

\* C11: on a device with a proxy, cd_device_get_profile_for_qualifier_sync
\* whose call is answered with object path P, P resolving, returns one profile
\* with object path P that holds a single reference and is no element of the
\* device's array; the array and every other field of the device are as they
\* were, also when the array has a profile with path P.
C11_BestProfileIsFresh ==
    (Ran("cd_device_get_profile_for_qualifier_sync") /\ last.ret) =>
        /\ last.pre.proxy # NULL
        /\ last.calls = <<Call("GetProfileForQualifier", last.arg)>>
        /\ Len(last.out) = 1
        /\ last.out[1].object_path = last.reply
        /\ last.out[1].ref_count = 1
        /\ Snapshot = last.pre

C11_BestProfileAlreadyCachedSeen ==
    /\ Ran("cd_device_get_profile_for_qualifier_sync")
    /\ last.ret
    /\ last.arg = "*.CMYK.*"
    /\ last.reply = "/p/1"
    /\ last.out[1].object_path = "/p/1"
    /\ PathsOf(profiles) = <<"/p/1", "/p/2">>

\* C12: no g-properties-changed, not even one with a DeviceId or a Created
\* entry, and no g-signal changes id or created.
C12_IdentifierFixed ==
    (Ran("cd_device_dbus_properties_changed") \/ Ran("cd_device_dbus_signal_cb")) =>
        /\ id = last.pre.id
        /\ created = last.pre.created

C12_DeviceIdEntryIgnoredSeen ==
    /\ Ran("cd_device_dbus_properties_changed")
    /\ last.arg = <<Entry("DeviceId", "d2")>>
    /\ id = "d1"
    /\ created = 1
    /\ nlocal = 0

\* C13: cd_device_get_profile_for_qualifier_sync on a device with a proxy,
\* called with the empty string as qualifier, fails its precondition check:
\* it returns no profile and issues no GetProfileForQualifier call.
C13_EmptyQualifierRejected ==
    (/\ Ran("cd_device_get_profile_for_qualifier_sync")
     /\ last.pre.proxy # NULL
     /\ last.arg = "") =>
        /\ last.ret = FALSE
        /\ last.err = "precondition"
        /\ last.out = <<>>
        /\ last.calls = <<>>

\* C14: cd_device_add_profile_sync and cd_device_make_profile_default_sync on
\* a device with a proxy, called with a profile that has no object path, fail
\* their precondition check and issue no AddProfile / MakeProfileDefault call.
C14_UnboundProfileRejected ==
    (/\ Ran("cd_device_add_profile_sync") \/ Ran("cd_device_make_profile_default_sync")
     /\ last.pre.proxy # NULL
     /\ last.arg.object_path = NULL) =>
        /\ last.ret = FALSE
        /\ last.err = "precondition"
        /\ last.calls = <<>>

\* C15: when the g_dbus_proxy_call_sync of cd_device_set_model_sync,
\* cd_device_set_kind_sync, cd_device_add_profile_sync,
\* cd_device_make_profile_default_sync or
\* cd_device_get_profile_for_qualifier_sync gets no reply, the entry point
\* returns FALSE (no profile) with its GError carrying the transport's
\* message, has made that one call and no other, and has changed no field.
C15_RemoteCallFailure ==
    (/\ \/ Ran("cd_device_set_model_sync")
        \/ Ran("cd_device_set_kind_sync")
        \/ Ran("cd_device_add_profile_sync")
        \/ Ran("cd_device_make_profile_default_sync")
        \/ Ran("cd_device_get_profile_for_qualifier_sync")
     /\ last.calls # <<>>
     /\ last.reply = NULL) =>
        /\ last.ret = FALSE
        /\ last.out = <<>>
        /\ last.err = (IF Ran("cd_device_add_profile_sync")
                         THEN "Failed to add profile to device"
                       ELSE IF Ran("cd_device_make_profile_default_sync")
                         THEN "Failed to make profile default on device"
                       ELSE IF Ran("cd_device_get_profile_for_qualifier_sync")
                         THEN "Failed to get a suitable profile"
                       ELSE "Failed to set profile object path")
        /\ last.message = error_local_message
        /\ Len(last.calls) = 1
        /\ Snapshot = last.pre

C15_SetKindCallFailedSeen ==
    /\ Ran("cd_device_set_kind_sync")
    /\ last.ret = FALSE
    /\ last.calls = <<Call("SetProperty", <<"Kind", "display">>)>>
    /\ last.message = error_local_message
    /\ kind = CD_DEVICE_KIND_UNKNOWN
    /\ Len(profiles) = 2

\* C16: the entries of one g-properties-changed are handled one by one: a
\* dictionary of unrecognised names only changes no field and raises no
\* error; whatever else the dictionary holds, before or after, an entry of an
\* unrecognised name or a Profiles entry with a path that fails to resolve
\* included, model is the value of its Model entry and kind the parsed value
\* of its Kind entry, and a field it has no entry for is left as it was.
C16_EntriesIndependent ==
    Ran("cd_device_dbus_properties_changed") =>
        /\ last.ret /\ last.err = "none"
        /\ \A i \in 1..Len(last.arg) :
              /\ last.arg[i].name = "Model" => model = last.arg[i].value
              /\ last.arg[i].name = "Kind" => kind = cd_device_kind_from_string(last.arg[i].value)
        /\ ~Changes("Model") => model = last.pre.model
        /\ ~Changes("Kind") => kind = last.pre.kind
        /\ ~Changes("Profiles") => profiles = last.pre.profiles
        /\ Snapshot = [last.pre EXCEPT !.model = model, !.kind = kind, !.profiles = profiles]

C16_KindAfterFailedProfilesSeen ==
    /\ Ran("cd_device_dbus_properties_changed")
    /\ last.arg = <<Entry("Profiles", <<"/p/2">>), Entry("Kind", "bogus")>>
    /\ last.dropped
    /\ last.pre.kind = CD_DEVICE_KIND_DISPLAY
    /\ kind = CD_DEVICE_KIND_UNKNOWN

\* C17: a bind that fails because a path of the cached Profiles property does
\* not resolve returns FALSE with the error of the profiles helper and leaves
\* the device with proxy and object path set and with id, kind, model and
\* created read from the cached properties: it is not put back as it was.
C17_FailedProfileBindKeepsFields ==
    (Ran("cd_device_set_object_path_sync") /\ last.err = "Failed to set profile object path") =>
        /\ last.ret = FALSE
        /\ last.pre.proxy = NULL
        /\ proxy = last.arg
        /\ object_path = last.arg
        /\ proxy = DevicePath
        /\ id = remote.DeviceId
        /\ kind = cd_device_kind_from_string(remote.Kind)
        /\ model = remote.Model
        /\ created = remote.Created
        /\ Len(profiles) < Len(remote.Profiles)

C17_FailedProfileBindSeen ==
    /\ Ran("cd_device_set_object_path_sync")
    /\ last.ret = FALSE
    /\ last.err = "Failed to set profile object path"
    /\ last.pre.id = NULL
    /\ proxy = DevicePath
    /\ object_path = DevicePath
    /\ id = "d1"
    /\ model = "m1"
    /\ kind = CD_DEVICE_KIND_DISPLAY
    /\ created = 1

\* a live device with a proxy and no handler connected on it
Frozen == proxy # NULL /\ handlers = {} /\ ~finalized

\* C18: the two handlers are connected only by a bind that returns TRUE.  A
\* bind that failed on a profile leaves a proxy without handlers, and while
\* the device lives that stays so: a further bind fails its precondition
\* check, no callback runs, the profiles array and the "changed" emissions
\* stay as they are, and model and kind change only when the owner writes
\* the GObject property.
C18_FailedBindLeavesNoListeners ==
    /\ [][handlers' # handlers =>
             \/ last'.op = "cd_device_set_object_path_sync" /\ last'.ret
                  /\ handlers' = BothHandlers
             \/ last'.op = "cd_device_finalize"]_vars
    /\ []((Ran("cd_device_set_object_path_sync")
              /\ last.err = "Failed to set profile object path") => Frozen)
    /\ [][Frozen =>
             /\ proxy' = proxy
             /\ handlers' = {}
             /\ observed' = observed
             /\ finalized' \/ profiles' = profiles
             /\ (model' # model \/ kind' # kind) => last'.op = "cd_device_set_property"
             /\ last'.op \notin {"cd_device_dbus_properties_changed", "cd_device_dbus_signal_cb"}
             /\ last'.op = "cd_device_set_object_path_sync" =>
                   last'.err = "precondition" /\ last'.calls = <<>>]_vars

C18_NotificationLostSeen ==
    /\ Frozen
    /\ proxy = DevicePath
    /\ serial = 2
    /\ pending = <<>>
    /\ remote.Model = "m2"
    /\ model = "m1"
    /\ remote.Profiles = <<"/p/2">>
    /\ profiles = <<>>
    /\ nlocal = 0
    /\ observed = <<>>

\* C19: a bind whose g_dbus_proxy_new_for_bus_sync fails leaves the device
\* exactly as it was, without proxy, object path or handlers; and a bind on a
\* device without a proxy, one that failed to connect before included, is
\* never rejected by the precondition check: it makes its connection attempt
\* and returns TRUE when that and every profile succeed.
C19_ConnectionFailureLeavesUnbound ==
    /\ (Ran("cd_device_set_object_path_sync") /\ last.err = "Failed to connect to device") =>
          /\ last.ret = FALSE
          /\ Snapshot = last.pre
          /\ proxy = NULL
          /\ object_path = NULL
          /\ profiles = <<>>
          /\ handlers = {}
    /\ (Ran("cd_device_set_object_path_sync") /\ last.pre.proxy = NULL) =>
          /\ last.err # "precondition"
          /\ last.calls = <<Call("g_dbus_proxy_new_for_bus_sync", last.arg)>>
          /\ last.err = "none" => last.ret /\ proxy = last.arg

C19_ConnectionFailureSeen ==
    /\ Ran("cd_device_set_object_path_sync")
    /\ last.err = "Failed to connect to device"
    /\ last.arg = DevicePath
    /\ last.calls = <<Call("g_dbus_proxy_new_for_bus_sync", DevicePath)>>
    /\ proxy = NULL
    /\ object_path = NULL
    /\ id = NULL
    /\ model = NULL
    /\ handlers = {}
    /\ Len(remote.Profiles) = 2

C21_LocalSetterOverwrites ==
    [][(AtMainLoop /\ last'.op = "cd_device_set_property") =>
          LET prop_id == last'.arg[1]
              value == last'.arg[2]
          IN  /\ last'.calls = <<>>
              /\ last'.pre = Snapshot
              /\ id' = (IF prop_id = PROP_ID THEN value ELSE id)
              /\ model' = (IF prop_id = PROP_MODEL THEN value ELSE model)
              /\ created' = (IF prop_id = PROP_CREATED THEN value ELSE created)
              /\ kind' = (IF prop_id = PROP_KIND THEN value ELSE kind)
              /\ UNCHANGED <<proxy, object_path, profiles, handlers>>
              /\ UNCHANGED <<observed, delivered, pending, serial, remote>>]_vars

C21_IdOverwrittenAfterBindSeen ==
    /\ Ran("cd_device_set_property")
    /\ last.arg = <<PROP_ID, "d7">>
    /\ last.pre.proxy = DevicePath
    /\ last.pre.id = "d1"
    /\ id = "d7"
    /\ remote.DeviceId = "d1"
    /\ handlers = BothHandlers

====
